---- MODULE Spec2Model ----
(***************************************************************************)
(* ExperimentTracker backend: job store, duplicate detection, background   *)
(* training units, status callback and the websocket registry.             *)
(*                                                                         *)
(* The repository holds two deployments of the same program over the same  *)
(* tables: the single-file application app/main.py and the layered one     *)
(* (controllers, services, utils/training.py).  The variable app says      *)
(* which one a behaviour runs; it never changes.                           *)
(***************************************************************************)
EXTENDS Integers, Sequences, FiniteSets, TLC

\* ---------------------------------------------------------------- bounds
MaxJobs == 2
MaxObservedJobs == 1
MaxExperiments == 2
MaxInflight == 2
MaxDeleting == 1
MaxBatchEvents == 1
MaxConnections == 2

\* ------------------------------------------------------------- constants
Apps == {"main", "services"}
Tokens == 1..MaxJobs
ExperimentIds == 1..MaxExperiments
ClientIds == {"a", "b"}
ModelTypes == {"cnn", "mlp", "rnn", "nn", "svm"}
Accuracies == {0, 97}

\* A nullable column: NULL, or a one-element tuple holding the value.
NULL == <<>>
Some(v) == <<v>>
utcnow == Some("utcnow")

Max(S) == CHOOSE x \in S : \A y \in S : y <= x
Min(S) == CHOOSE x \in S : \A y \in S : x <= y

\* ------------------------------------------------------------- requests
\* The parameters of the base request: the defaults of JobParameters, with
\* one epoch.  Values that are only compared or passed on are strings.
DefaultParameters ==
    [model_type |-> "cnn", epochs |-> 1, batch_size |-> 64,
     learning_rate |-> "0.01", optimizer |-> "sgd", momentum |-> "0.5",
     dropout_rate |-> "0.5", hidden_size |-> "128", kernel_size |-> "3",
     num_layers |-> "2", use_scheduler |-> "False"]

\* The other value a request may give each parameter.
AltParameters ==
    [model_type |-> "mlp", epochs |-> 2, batch_size |-> 32,
     learning_rate |-> "0.001", optimizer |-> "adam", momentum |-> "0.9",
     dropout_rate |-> "0.2", hidden_size |-> "256", kernel_size |-> "5",
     num_layers |-> "3", use_scheduler |-> "True"]

ParameterKeys == DOMAIN DefaultParameters

\* JobCreate: the body of POST /jobs/.
JobCreate(e, n, mt, p) ==
    [experiment_id |-> e, name |-> n, model_type |-> mt, parameters |-> p]

BaseRequest(mt) == JobCreate(1, "a", mt, DefaultParameters)

\* The requests that differ from r in at most one place.
Variants(r) ==
    {r, [r EXCEPT !.experiment_id = 2], [r EXCEPT !.name = "b"],
        [r EXCEPT !.model_type = IF r.model_type = "cnn" THEN "mlp" ELSE "cnn"],
        [r EXCEPT !.parameters.epochs = 0]}
    \cup {[r EXCEPT !.parameters[k] = AltParameters[k]] : k \in ParameterKeys}

\* The requests the clients of one behaviour post: a cnn or mlp request
\* with one of its variants, or an rnn request.
RequestPools ==
    UNION {{{BaseRequest(mt), v} : v \in Variants(BaseRequest(mt))} :
               mt \in {"cnn", "mlp"}}
    \cup {{BaseRequest("rnn")}}

\* A request that trains, one of an unsupported model kind.
ObservedPool == {BaseRequest("cnn"), BaseRequest("svm")}

\* The same, and requests for no epoch at all and for a negative number of
\* epochs: JobParameters declares epochs as an int without bounds.
FairPool ==
    ObservedPool
    \cup {[BaseRequest("cnn") EXCEPT !.parameters.epochs = n] : n \in {0, -1}}

\* Two requests for experiment 1 and one for experiment 2.
CascadePool ==
    {BaseRequest("cnn"), BaseRequest("mlp"),
     [BaseRequest("cnn") EXCEPT !.experiment_id = 2]}

VARIABLES
    app,          \* which deployment runs
    requests,     \* the request bodies clients post in this behaviour
    experiments,  \* ids of the rows of table experiments
    deleting,     \* delete_experiment calls between db.delete and db.commit
    jobs,         \* table jobs: job_id -> row
    issued,       \* number of job ids generated so far (uuid4 never repeats)
    inflight,     \* create_job calls between duplicate check and insert
    cancelling,   \* cancel_job calls between status check and commit
    tasks,        \* job_id -> number of add_task(run_training_job) calls
    unit,         \* job_id -> state of its run_training_job call; seq counts
                  \* the events it emitted, terminal the terminal ones
    ws_connections, \* the dict's entry array, in insertion order
    conn,         \* websocket objects accepted so far
    sends         \* websocket -> job_id -> number of the last event sent on it

vars == <<app, requests, experiments, deleting, jobs, issued, inflight, cancelling, tasks,
          unit, ws_connections, conn, sends>>


\* ------------------------------------------------------------ job store
\* The row create_job adds: Job(job_id, name, experiment_id, model_type,
\* parameters, status="pending"), the other columns at their defaults.
NewJob(r) ==
    [experiment_id |-> r.experiment_id, name |-> r.name,
     model_type |-> r.model_type, parameters |-> r.parameters,
     status |-> "pending", best_accuracy |-> NULL, total_time |-> NULL,
     epochs_completed |-> 0, history |-> NULL,
     started_at |-> NULL, completed_at |-> NULL]

NoUnit ==
    [pc |-> "none", model_type |-> "", parameters |-> DefaultParameters,
     model_params |-> <<>>, training_params |-> <<>>,
     epoch |-> 0, batches |-> 0, seq |-> 0, stored |-> 0, terminal |-> 0,
     data |-> NULL,
     cb |-> "idle",
     it_used |-> 0, it_len |-> 0, it_pos |-> 0, disconnected |-> {},
     task |-> FALSE, audience |-> {}]

\* Rows of an experiment and model type, in store order (ascending row id,
\* which is the order the job ids were issued in).
existing_jobs(r) ==
    {t \in DOMAIN jobs : /\ jobs[t].experiment_id = r.experiment_id
                         /\ jobs[t].model_type = r.model_type}

core_match(existing_params, job_params) ==
    /\ existing_params.optimizer = job_params.optimizer
    /\ existing_params.learning_rate = job_params.learning_rate
    /\ existing_params.batch_size = job_params.batch_size
    /\ existing_params.epochs = job_params.epochs

\* Variant: only mlp has specific parameters; two cnn requests match on the
\* core parameters alone.
specific_params_match_mlp_only(model_type, existing_params, job_params) ==
    IF model_type = "mlp"
    THEN /\ existing_params.hidden_size = job_params.hidden_size
         /\ existing_params.dropout_rate = job_params.dropout_rate
         /\ existing_params.num_layers = job_params.num_layers
    ELSE model_type = "cnn"

\* Variant: a kind without specific parameters matches on the core ones.
specific_params_match_core_suffices(model_type, existing_params, job_params) ==
    IF model_type = "mlp"
    THEN /\ existing_params.hidden_size = job_params.hidden_size
         /\ existing_params.dropout_rate = job_params.dropout_rate
         /\ existing_params.num_layers = job_params.num_layers
    ELSE IF model_type = "cnn"
    THEN existing_params.kernel_size = job_params.kernel_size
    ELSE TRUE

specific_params_match(model_type, existing_params, job_params) ==
    IF model_type = "mlp"
    THEN /\ existing_params.hidden_size = job_params.hidden_size
         /\ existing_params.dropout_rate = job_params.dropout_rate
         /\ existing_params.num_layers = job_params.num_layers
    ELSE IF model_type = "cnn"
    THEN existing_params.kernel_size = job_params.kernel_size
    ELSE FALSE

\* The job ids of the rows the loop of _find_duplicate_job would return.
Duplicates(r) ==
    {t \in existing_jobs(r) :
        /\ core_match(jobs[t].parameters, r.parameters)
        /\ specific_params_match(r.model_type, jobs[t].parameters, r.parameters)}

\* _find_duplicate_job: the first match in store order, 0 for None.
find_duplicate_job(r) ==
    IF Duplicates(r) = {} THEN 0 ELSE Min(Duplicates(r))

\* POST /experiments/: the new row takes the next row id.
create_experiment ==
    LET id == IF experiments = {} THEN 1 ELSE Max(experiments) + 1 IN
    /\ id <= MaxExperiments
    /\ experiments' = experiments \cup {id}
    /\ UNCHANGED <<app, requests, deleting, jobs, issued, inflight, cancelling, tasks,
                   unit, ws_connections, conn, sends>>

\* DELETE /experiments/{id} up to db.delete: 404 without the row; else
\* db.delete loads the jobs of the relationship, which the flush will
\* delete with the experiment.
delete_experiment(e) ==
    /\ IF e \in experiments
       THEN /\ Cardinality(deleting) < MaxDeleting
            /\ deleting' = deleting \cup
                   {[id |-> e,
                     jobs |-> {t \in DOMAIN jobs : jobs[t].experiment_id = e}]}
       ELSE UNCHANGED deleting
    /\ UNCHANGED <<app, requests, experiments, jobs, issued, inflight,
                   cancelling, tasks, unit, ws_connections, conn, sends>>

\* delete_experiment at db.commit: the flush deletes the jobs that were
\* loaded and the experiment.  A job that another request has deleted
\* since matches no row, which the flush only warns about.
delete_experiment_commit(d) ==
    /\ d \in deleting
    /\ deleting' = deleting \ {d}
    /\ experiments' = experiments \ {d.id}
    /\ jobs' = [t \in DOMAIN jobs \ d.jobs |-> jobs[t]]
    /\ UNCHANGED <<app, requests, issued, inflight, cancelling, tasks, unit,
                   ws_connections, conn, sends>>

\* How many job ids a behaviour generates: fewer where the websocket
\* registry multiplies the interleavings.
JobLimit == IF app = "main" THEN MaxObservedJobs ELSE MaxJobs

\* Variant: the duplicate is looked for before the experiment.
create_job_result_duplicate_first(r) ==
    IF find_duplicate_job(r) # 0
    THEN [code |-> 200, job_id |-> find_duplicate_job(r), insert |-> FALSE]
    ELSE IF r.experiment_id \notin experiments
    THEN [code |-> 404, job_id |-> 0, insert |-> FALSE]
    ELSE [code |-> 200, job_id |-> 0, insert |-> TRUE]

\* What create_job decides before it generates a job id: the HTTP status
\* and the job id of the row it returns, or insert.
create_job_result(r) ==
    IF r.experiment_id \notin experiments
    THEN [code |-> 404, job_id |-> 0, insert |-> FALSE]
    ELSE IF find_duplicate_job(r) # 0
    THEN [code |-> 200, job_id |-> find_duplicate_job(r), insert |-> FALSE]
    ELSE [code |-> 200, job_id |-> 0, insert |-> TRUE]

\* Variant: a duplicate is brought up to date with the request's parameters
\* before it is returned.
create_job_check_updates_duplicate(r) ==
    /\ IF create_job_result(r).insert
       THEN /\ r \notin inflight
            /\ Cardinality(inflight) < MaxInflight
            /\ issued + Cardinality(inflight) < JobLimit
            /\ inflight' = inflight \cup {r}
            /\ UNCHANGED jobs
       ELSE /\ UNCHANGED inflight
            /\ jobs' = IF create_job_result(r).job_id # 0
                       THEN [jobs EXCEPT ![create_job_result(r).job_id].parameters =
                                             r.parameters]
                       ELSE jobs
    /\ UNCHANGED <<app, requests, experiments, deleting, issued, cancelling, tasks,
                   unit, ws_connections, conn, sends>>

\* create_job up to the duplicate check: it raises 404, returns the
\* duplicate, or goes on to the insert.  Handlers run on worker threads, so
\* other requests run between the check and the insert.
create_job_check(r) ==
    /\ IF create_job_result(r).insert
       THEN /\ r \notin inflight
            /\ Cardinality(inflight) < MaxInflight
            /\ issued + Cardinality(inflight) < JobLimit
            /\ inflight' = inflight \cup {r}
       ELSE UNCHANGED inflight
    /\ UNCHANGED <<app, requests, experiments, deleting, jobs, issued, cancelling, tasks,
                   unit, ws_connections, conn, sends>>

\* Variant: the task is added twice.
create_job_insert_two_tasks(r) ==
    LET job_id == issued + 1 IN
    /\ r \in inflight
    /\ inflight' = inflight \ {r}
    /\ issued' = job_id
    /\ jobs' = (job_id :> NewJob(r)) @@ jobs
    /\ tasks' = [tasks EXCEPT ![job_id] = @ + 2]
    /\ unit' = [unit EXCEPT ![job_id] =
                   [NoUnit EXCEPT !.pc = "queued", !.model_type = r.model_type,
                                  !.parameters = r.parameters]]
    /\ UNCHANGED <<app, requests, experiments, deleting, cancelling, ws_connections,
                   conn, sends>>

\* create_job from uuid4 on: insert, commit, add_task, return the row.
create_job_insert(r) ==
    LET job_id == issued + 1 IN
    /\ r \in inflight
    /\ inflight' = inflight \ {r}
    /\ issued' = job_id
    /\ jobs' = (job_id :> NewJob(r)) @@ jobs
    /\ tasks' = [tasks EXCEPT ![job_id] = @ + 1]
    /\ unit' = [unit EXCEPT ![job_id] =
                   [NoUnit EXCEPT !.pc = "queued", !.model_type = r.model_type,
                                  !.parameters = r.parameters]]
    /\ UNCHANGED <<app, requests, experiments, deleting, cancelling, ws_connections,
                   conn, sends>>

\* get_job / read_job: the HTTP status of a lookup by job id.
get_job(job_id) == IF job_id \in DOMAIN jobs THEN 200 ELSE 404

\* DELETE /jobs/{job_id}: 404 without the row.
delete_job(job_id) ==
    /\ jobs' = [t \in DOMAIN jobs \ {job_id} |-> jobs[t]]
    /\ UNCHANGED <<app, requests, experiments, deleting, issued, inflight, cancelling,
                   tasks, unit, ws_connections, conn, sends>>

\* The HTTP status cancel_job raises at its checks, 200 when it goes on.
cancel_job_result(job_id) ==
    IF job_id \notin DOMAIN jobs THEN 404
    ELSE IF jobs[job_id].status \notin {"pending", "running"} THEN 400
    ELSE 200

\* cancel_job up to the status check.
cancel_job_check(job_id) ==
    /\ job_id \notin cancelling
    /\ cancelling' = IF cancel_job_result(job_id) = 200
                     THEN cancelling \cup {job_id} ELSE cancelling
    /\ UNCHANGED <<app, requests, experiments, deleting, jobs, issued, inflight, tasks,
                   unit, ws_connections, conn, sends>>

\* The status cancel_job writes: JobService.cancel_job writes "cancelled",
\* the handler of app/main.py writes "failed".
cancelled_status == IF app = "main" THEN "failed" ELSE "cancelled"

\* Variant: cancel_job writes the status alone.
cancel_job_commit_status_only(job_id) ==
    /\ job_id \in cancelling
    /\ cancelling' = cancelling \ {job_id}
    /\ jobs' = IF job_id \in DOMAIN jobs
               THEN [jobs EXCEPT ![job_id].status = cancelled_status]
               ELSE jobs
    /\ UNCHANGED <<app, requests, experiments, deleting, issued, inflight, tasks, unit,
                   ws_connections, conn, sends>>

\* cancel_job from the assignment on: the UPDATE of status and completed_at.
\* When the row is gone the UPDATE matches no row and the request fails.
cancel_job_commit(job_id) ==
    /\ job_id \in cancelling
    /\ cancelling' = cancelling \ {job_id}
    /\ jobs' = IF job_id \in DOMAIN jobs
               THEN [jobs EXCEPT ![job_id].status = cancelled_status,
                                 ![job_id].completed_at = utcnow]
               ELSE jobs
    /\ UNCHANGED <<app, requests, experiments, deleting, issued, inflight, tasks, unit,
                   ws_connections, conn, sends>>

\* ------------------------------------------------- websocket registry
\* ws_connections is a dict: an entry array in insertion order, where del
\* leaves a hole and an assignment to a present key rewrites its entry.
Hole == [client_id |-> "", ws |-> 0]

LiveSlots == {i \in 1..Len(ws_connections) : ws_connections[i].ws # 0}

SlotOf(client_id) ==
    {i \in LiveSlots : ws_connections[i].client_id = client_id}

Registered == {ws_connections[i].ws : i \in LiveSlots}

\* Bookkeeping for the claims: the sockets registered since the event of
\* each running callback was emitted.
Forget(gone) ==
    [t \in Tokens |-> [unit[t] EXCEPT !.audience = @ \ gone]]

\* del ws_connections[client_id], guarded by "client_id in ws_connections".
Removed(d, client_ids) ==
    [i \in 1..Len(d) |->
        IF d[i].ws # 0 /\ d[i].client_id \in client_ids THEN Hole ELSE d[i]]

\* websocket_endpoint up to the receive loop: accept, then
\* ws_connections[client_id] = websocket.
websocket_endpoint(client_id) ==
    LET ws == Len(conn) + 1 IN
    /\ app = "main"
    /\ ws <= MaxConnections
    /\ conn' = Append(conn, [client_id |-> client_id, state |-> "open"])
    /\ sends' = Append(sends, [t \in Tokens |-> 0])
    /\ IF SlotOf(client_id) # {}
       THEN LET i == CHOOSE i \in SlotOf(client_id) : TRUE IN
            /\ ws_connections' = [ws_connections EXCEPT ![i].ws = ws]
            /\ unit' = Forget({ws_connections[i].ws})
       ELSE /\ ws_connections' =
                   Append(ws_connections, [client_id |-> client_id, ws |-> ws])
            /\ UNCHANGED unit
    /\ UNCHANGED <<app, requests, experiments, deleting, jobs, issued, inflight,
                   cancelling, tasks>>

\* The peer goes away: sends on the socket fail from now on and the
\* handler's receive_text will raise WebSocketDisconnect.
peer_disconnects(ws) ==
    /\ ws \in 1..Len(conn)
    /\ conn[ws].state = "open"
    /\ conn' = [conn EXCEPT ![ws].state = "closing"]
    /\ UNCHANGED <<app, requests, experiments, deleting, jobs, issued, inflight,
                   cancelling, tasks, unit, ws_connections, sends>>

\* websocket_endpoint's except WebSocketDisconnect: the key is deleted
\* whichever socket it maps to.
websocket_disconnect(ws) ==
    /\ ws \in 1..Len(conn)
    /\ conn[ws].state = "closing"
    /\ conn' = [conn EXCEPT ![ws].state = "closed"]
    /\ sends' = [sends EXCEPT ![ws] = [t \in Tokens |-> 0]]
    /\ ws_connections' = Removed(ws_connections, {conn[ws].client_id})
    /\ unit' = Forget({ws_connections[i].ws : i \in SlotOf(conn[ws].client_id)})
    /\ UNCHANGED <<app, requests, experiments, deleting, jobs, issued, inflight,
                   cancelling, tasks>>


\* ------------------------------------------------------ status pipeline
\* The dicts the trainer and run_training_job pass to the callback.  status
\* "" is a dict without the key "status".
BatchStatus(epoch) ==
    [status |-> "", epoch |-> Some(epoch), final_results |-> NULL]

EpochStatus(epoch) ==
    [status |-> "running", epoch |-> Some(epoch), final_results |-> NULL]

FinalStatus(epoch, best_accuracy) ==
    [status |-> "completed", epoch |-> Some(epoch),
     final_results |-> Some([best_accuracy |-> best_accuracy,
                             total_time |-> "total_time", history |-> epoch])]

\* Variant: the error_info of an except clause carries "epoch": 0.
ErrorInfo_epoch_zero ==
    [status |-> "failed", epoch |-> Some(0), final_results |-> NULL]

ErrorInfo == [status |-> "failed", epoch |-> NULL, final_results |-> NULL]

\* Variant: a failure event does not set completed_at.
update_job_in_db_failed_open(job, status_data) ==
    LET j1 == IF status_data.epoch # NULL
              THEN [job EXCEPT !.epochs_completed = status_data.epoch[1]]
              ELSE job
    IN  IF status_data.status = "completed" /\ status_data.final_results # NULL
        THEN [j1 EXCEPT !.status = "completed", !.completed_at = utcnow,
                 !.best_accuracy = Some(status_data.final_results[1].best_accuracy),
                 !.total_time = Some(status_data.final_results[1].total_time),
                 !.history = Some(status_data.final_results[1].history)]
        ELSE IF status_data.status = "failed"
        THEN [j1 EXCEPT !.status = "failed"]
        ELSE j1

\* update_job_in_db on a row it found.
update_job_in_db(job, status_data) ==
    LET j1 == IF status_data.epoch # NULL
              THEN [job EXCEPT !.epochs_completed = status_data.epoch[1]]
              ELSE job
    IN  IF status_data.status = "completed" /\ status_data.final_results # NULL
        THEN [j1 EXCEPT !.status = "completed", !.completed_at = utcnow,
                 !.best_accuracy = Some(status_data.final_results[1].best_accuracy),
                 !.total_time = Some(status_data.final_results[1].total_time),
                 !.history = Some(status_data.final_results[1].history)]
        ELSE IF status_data.status = "failed"
        THEN [j1 EXCEPT !.status = "failed", !.completed_at = utcnow]
        ELSE j1

\* Variant: the query of update_job_in_db has no filter on job_id.
Stored_every_row(job_id, status_data) ==
    [t \in DOMAIN jobs |-> update_job_in_db(jobs[t], status_data)]

\* Variant: update_job_in_db adds a row when it finds none.
Stored_upsert(job_id, status_data) ==
    IF job_id \in DOMAIN jobs
    THEN [jobs EXCEPT ![job_id] = update_job_in_db(@, status_data)]
    ELSE (job_id :> update_job_in_db(NewJob(BaseRequest(unit[job_id].model_type)),
                                     status_data)) @@ jobs

\* The store after update_job_in_db has handled status_data for job_id; it
\* returns at once when the row is gone.
Stored(job_id, status_data) ==
    IF job_id \in DOMAIN jobs
    THEN [jobs EXCEPT ![job_id] = update_job_in_db(@, status_data)]
    ELSE jobs

\* ------------------------------------------------------- execution unit
\* create_model: TRUE when it returns a model, FALSE when it raises
\* ValueError for a model type it does not know.
create_model(model_type) == model_type \in {"cnn", "nn", "mlp", "rnn"}

\* Variant: the ValueError of create_model leaves run_training_job uncaught.
EnteredUncaught(model_type, parameters) ==
    IF ~create_model(model_type) THEN "done"
    ELSE IF parameters.epochs >= 1 THEN "train_epoch"
    ELSE "trainer_except"

\* Where run_training_job first calls the callback from: the except clause
\* of run_training_job when create_model raises; the first batch of epoch 1;
\* or, with no epoch to run, the except clause of train_model, because the
\* final callback reads epoch_status unbound, which raises NameError.
Entered(model_type, parameters) ==
    IF ~create_model(model_type) THEN "except"
    ELSE IF parameters.epochs >= 1 THEN "train_epoch"
    ELSE "trainer_except"

\* The keys run_training_job passes to create_model.
ModelParameterKeys == {"dropout_rate", "hidden_size", "kernel_size", "num_layers"}

\* Variant: train_model is given the whole dict.
training_params_whole(parameters) == parameters

\* The two dict comprehensions of run_training_job: the keyword arguments
\* of create_model and the config of train_model.
model_params(parameters) ==
    [k \in DOMAIN parameters \cap ModelParameterKeys |-> parameters[k]]

training_params(parameters) ==
    [k \in DOMAIN parameters \ ModelParameterKeys |-> parameters[k]]

\* run_training_job up to its first callback: the row, if found, becomes
\* running; then the parameters are split, the model is made from the one
\* part and train_model starts on the other.
run_training_job(job_id) ==
    LET u == unit[job_id]
        pc == Entered(u.model_type, training_params(u.parameters))
    IN
    /\ u.pc = "queued"
    /\ unit' = [unit EXCEPT ![job_id].pc = pc,
                            ![job_id].model_params = model_params(u.parameters),
                            ![job_id].training_params = training_params(u.parameters),
                            ![job_id].epoch = IF pc = "train_epoch" THEN 1 ELSE 0]
    /\ jobs' = IF job_id \in DOMAIN jobs
               THEN [jobs EXCEPT ![job_id].status = "running",
                                 ![job_id].started_at = utcnow]
               ELSE jobs
    /\ UNCHANGED <<app, requests, experiments, deleting, issued, inflight, cancelling,
                   tasks, ws_connections, conn, sends>>

\* Loading the data, a training step or the validation raises inside the
\* try of train_model.
training_raises(job_id) ==
    /\ unit[job_id].pc \in {"train_epoch", "validate"}
    /\ unit[job_id].cb = "idle"
    /\ unit' = [unit EXCEPT ![job_id].pc = "trainer_except"]
    /\ UNCHANGED <<app, requests, experiments, deleting, jobs, issued, inflight,
                   cancelling, tasks, ws_connections, conn, sends>>

\* The dict the caller at pc passes to status_callback.
StatusData(job_id, best_accuracy) ==
    LET u == unit[job_id] IN
    CASE u.pc = "train_epoch" -> BatchStatus(u.epoch)
      [] u.pc = "validate" -> EpochStatus(u.epoch)
      [] u.pc = "final" -> FinalStatus(u.epoch, best_accuracy)
      [] OTHER -> ErrorInfo

\* Where train_model and run_training_job go on when the callback returns:
\* <<pc, epoch, batches>>.
train_model(job_id) ==
    LET u == unit[job_id] IN
    CASE u.pc = "train_epoch" ->
            {<<"validate", u.epoch, u.batches + 1>>}
            \cup (IF u.batches + 1 < MaxBatchEvents
                  THEN {<<"train_epoch", u.epoch, u.batches + 1>>} ELSE {})
      [] u.pc = "validate" ->
            IF u.epoch < u.training_params.epochs
            THEN {<<"train_epoch", u.epoch + 1, 0>>}
            ELSE {<<"final", u.epoch, 0>>}
      [] OTHER -> {<<"done", u.epoch, 0>>}

\* Where control goes when the callback raises: the except clause of
\* train_model, then the one of run_training_job, then out of the task.
Handler(pc) ==
    IF pc \in {"train_epoch", "validate", "final"} THEN "trainer_except"
    ELSE IF pc = "trainer_except" THEN "except"
    ELSE "done"

Emitting == {"train_epoch", "validate", "final", "trainer_except", "except"}

\* 1 when the event emitted at pc is a terminal one: the final callback of
\* train_model or the error_info of an except clause.
Ends(pc) == IF pc \in {"final", "trainer_except", "except"} THEN 1 ELSE 0

\* The unit once its callback is over and control is at pc.
Returned(job_id, pc, epoch, batches) ==
    [unit[job_id] EXCEPT !.pc = pc, !.epoch = epoch, !.batches = batches,
                         !.cb = "idle", !.data = NULL, !.task = FALSE,
                         !.stored = unit[job_id].seq,
                         !.it_used = 0, !.it_len = 0, !.it_pos = 0,
                         !.disconnected = {}, !.audience = {}]

\* utils/training.py: one call of status_callback.  Nothing writes the
\* ws_connections of this module, so send_ws_update loops over an empty
\* dict and never suspends; the task update_job_in_db runs when the
\* callback is over, before run_until_complete returns.
training_status_callback(job_id) ==
    /\ app = "services"
    /\ unit[job_id].pc \in Emitting
    /\ \E best_accuracy \in
            IF unit[job_id].pc = "final" THEN Accuracies ELSE {0} :
         jobs' = Stored(job_id, StatusData(job_id, best_accuracy))
    /\ \E c \in train_model(job_id) :
         unit' = [unit EXCEPT ![job_id] =
                    [Returned(job_id, c[1], c[2], c[3])
                        EXCEPT !.seq = @ + 1, !.stored = unit[job_id].seq + 1,
                               !.terminal = @ + Ends(unit[job_id].pc)]]
    /\ UNCHANGED <<app, requests, experiments, deleting, issued, inflight, cancelling,
                   tasks, ws_connections, conn, sends>>

\* app/main.py: status_callback up to the loop of send_ws_update: the task
\* update_job_in_db is created, not awaited, and the iterator over
\* ws_connections.items() is made.
status_callback(job_id) ==
    /\ app = "main"
    /\ unit[job_id].pc \in Emitting
    /\ unit[job_id].cb = "idle"
    /\ \E best_accuracy \in
            IF unit[job_id].pc = "final" THEN Accuracies ELSE {0} :
         unit' = [unit EXCEPT ![job_id] =
                    [@ EXCEPT !.seq = @ + 1,
                              !.terminal = @ + Ends(unit[job_id].pc),
                              !.data = Some(StatusData(job_id, best_accuracy)),
                              !.task = TRUE, !.cb = "iter",
                              !.it_used = Cardinality(LiveSlots),
                              !.it_len = Cardinality(LiveSlots),
                              !.it_pos = 0, !.disconnected = {},
                              !.audience = Registered]]
    /\ UNCHANGED <<app, requests, experiments, deleting, jobs, issued, inflight,
                   cancelling, tasks, ws_connections, conn, sends>>

\* The store once the task of job_id's callback, if still pending, has run.
Updated(job_id) ==
    IF unit[job_id].task THEN Stored(job_id, unit[job_id].data[1]) ELSE jobs

\* Variant: the iterator yields the entry at it_pos again.
NextSlot_from_position(job_id) ==
    {i \in LiveSlots : /\ i >= unit[job_id].it_pos
                       /\ \A k \in LiveSlots : k >= unit[job_id].it_pos => i <= k}

\* The entry the dict iterator yields next: the first live one after it_pos.
NextSlot(job_id) ==
    {i \in LiveSlots : /\ i > unit[job_id].it_pos
                       /\ \A k \in LiveSlots : k > unit[job_id].it_pos => i <= k}

\* The iterator raises RuntimeError: the dict changed size, or it has
\* yielded as many items as the dict held and finds one more.
IteratorRaises(job_id) ==
    \/ Cardinality(LiveSlots) # unit[job_id].it_used
    \/ NextSlot(job_id) # {} /\ unit[job_id].it_len = 0

\* One turn of the loop of send_ws_update: the iterator yields an entry and
\* send_json is called on its socket; a failed send is caught and noted.
send_ws_update_send(job_id) ==
    /\ unit[job_id].cb = "iter"
    /\ ~IteratorRaises(job_id)
    /\ \E i \in NextSlot(job_id) :
         LET ws == ws_connections[i].ws IN
         /\ sends' = [sends EXCEPT ![ws][job_id] = unit[job_id].seq]
         /\ unit' = [unit EXCEPT ![job_id] =
                       [@ EXCEPT !.it_pos = i, !.it_len = @ - 1,
                                 !.disconnected =
                                     IF conn[ws].state = "open" THEN @
                                     ELSE @ \cup {ws_connections[i].client_id}]]
    /\ UNCHANGED <<app, requests, experiments, deleting, jobs, issued, inflight,
                   cancelling, tasks, ws_connections, conn>>

\* The loop ends: the iterator is exhausted.
send_ws_update_exhausted(job_id) ==
    /\ unit[job_id].cb = "iter"
    /\ ~IteratorRaises(job_id)
    /\ NextSlot(job_id) = {}
    /\ unit' = [unit EXCEPT ![job_id].cb = "cleanup"]
    /\ UNCHANGED <<app, requests, experiments, deleting, jobs, issued, inflight,
                   cancelling, tasks, ws_connections, conn, sends>>

\* The task update_job_in_db runs while a send is suspended.
update_job_task(job_id) ==
    /\ unit[job_id].cb = "iter"
    /\ unit[job_id].task
    /\ unit[job_id].it_len < unit[job_id].it_used
    /\ jobs' = Updated(job_id)
    /\ unit' = [unit EXCEPT ![job_id].task = FALSE,
                            ![job_id].stored = unit[job_id].seq]
    /\ UNCHANGED <<app, requests, experiments, deleting, issued, inflight, cancelling,
                   tasks, ws_connections, conn, sends>>

\* Variant: a pending task is dropped when run_until_complete raises.
send_ws_update_raises_drops_task(job_id) ==
    LET u == unit[job_id] IN
    /\ u.cb = "iter"
    /\ IteratorRaises(job_id)
    /\ unit' = [unit EXCEPT ![job_id] =
                   [Returned(job_id, Handler(u.pc), u.epoch, u.batches)
                       EXCEPT !.stored = u.stored]]
    /\ UNCHANGED <<app, requests, experiments, deleting, jobs, issued, inflight,
                   cancelling, tasks, ws_connections, conn, sends>>

\* The iterator raises inside send_ws_update: the loop runs the pending
\* task, run_until_complete raises, control is in the caller's except.
send_ws_update_raises(job_id) ==
    LET u == unit[job_id] IN
    /\ u.cb = "iter"
    /\ IteratorRaises(job_id)
    /\ jobs' = Updated(job_id)
    /\ unit' = [unit EXCEPT ![job_id] =
                   Returned(job_id, Handler(u.pc), u.epoch, u.batches)]
    /\ UNCHANGED <<app, requests, experiments, deleting, issued, inflight, cancelling,
                   tasks, ws_connections, conn, sends>>

\* send_ws_update after its loop and the return of the callback: the keys
\* of the failed sends are deleted, the loop runs the pending task, the
\* caller goes on.
send_ws_update_cleanup(job_id) ==
    LET u == unit[job_id]
        gone == {ws_connections[i].ws :
                    i \in {k \in LiveSlots :
                              ws_connections[k].client_id \in u.disconnected}}
    IN
    /\ u.cb = "cleanup"
    /\ ws_connections' = Removed(ws_connections, u.disconnected)
    /\ jobs' = Updated(job_id)
    /\ \E c \in train_model(job_id) :
         unit' = [t \in Tokens |->
                    IF t = job_id THEN Returned(job_id, c[1], c[2], c[3])
                    ELSE [unit[t] EXCEPT !.audience = @ \ gone]]
    /\ UNCHANGED <<app, requests, experiments, deleting, issued, inflight, cancelling,
                   tasks, conn, sends>>

\* ------------------------------------------------------- failing store
\* run_training_job when the store fails at its first query or commit: the
\* statements are above the try, so the exception leaves the task; the row
\* is not written, no model is made and the callback is never called.
run_training_job_store_fails(job_id) ==
    /\ unit[job_id].pc = "queued"
    /\ unit' = [unit EXCEPT ![job_id].pc = "done"]
    /\ UNCHANGED <<app, requests, experiments, deleting, jobs, issued, inflight,
                   cancelling, tasks, ws_connections, conn, sends>>

\* The task update_job_in_db when the store fails at its query or commit:
\* the task ends with the exception, which nothing retrieves; the row is
\* not written and the callback that created the task goes on.
update_job_in_db_fails(job_id) ==
    /\ unit[job_id].cb \in {"iter", "cleanup"}
    /\ unit[job_id].task
    /\ unit' = [unit EXCEPT ![job_id].task = FALSE]
    /\ UNCHANGED <<app, requests, experiments, deleting, jobs, issued, inflight,
                   cancelling, tasks, ws_connections, conn, sends>>

\* ------------------------------------------------------ specifications
InitCommon ==
    /\ experiments = {}
    /\ deleting = {}
    /\ jobs = <<>>
    /\ issued = 0
    /\ inflight = {}
    /\ cancelling = {}
    /\ tasks = [t \in Tokens |-> 0]
    /\ unit = [t \in Tokens |-> NoUnit]
    /\ ws_connections = <<>>
    /\ conn = <<>>
    /\ sends = <<>>

\* app/main.py, with its websocket endpoint.
Init == InitCommon /\ app = "main" /\ requests = ObservedPool

\* The layered application, over every pool of requests.
InitStore == InitCommon /\ app = "services" /\ requests \in RequestPools

StoreStep ==
    \/ create_experiment
    \/ \E r \in requests : create_job_check(r)
    \/ \E r \in requests : create_job_insert(r)
    \/ \E t \in Tokens : delete_job(t)
    \/ \E t \in Tokens : cancel_job_check(t)
    \/ \E t \in Tokens : cancel_job_commit(t)

CascadeStep ==
    \/ \E e \in ExperimentIds : delete_experiment(e)
    \/ \E d \in deleting : delete_experiment_commit(d)

\* The steps of the execution unit of job_id in app/main.py.
UnitStep(job_id) ==
    \/ run_training_job(job_id)
    \/ training_raises(job_id)
    \/ status_callback(job_id)
    \/ send_ws_update_send(job_id)
    \/ send_ws_update_exhausted(job_id)
    \/ update_job_task(job_id)
    \/ send_ws_update_raises(job_id)
    \/ send_ws_update_cleanup(job_id)

\* The steps of the execution unit of job_id in the layered application.
UnitStepStore(job_id) ==
    \/ run_training_job(job_id)
    \/ training_raises(job_id)
    \/ training_status_callback(job_id)

ObserverStep ==
    \/ \E c \in ClientIds : websocket_endpoint(c)
    \/ \E ws \in 1..MaxConnections : peer_disconnects(ws)
    \/ \E ws \in 1..MaxConnections : websocket_disconnect(ws)

Next ==
    \/ StoreStep
    \/ ObserverStep
    \/ \E t \in Tokens : UnitStep(t)

Spec == Init /\ [][Next]_vars

NextStore ==
    \/ StoreStep
    \/ \E t \in Tokens : UnitStepStore(t)

SpecStore == InitStore /\ [][NextStore]_vars

\* The layered application with experiments deleted under it.
InitCascade == InitCommon /\ app = "services" /\ requests = CascadePool

NextCascade ==
    \/ StoreStep
    \/ CascadeStep
    \/ \E t \in Tokens : UnitStepStore(t)

SpecCascade == InitCascade /\ [][NextCascade]_vars

\* A background task that was added runs, and a running unit goes on: the
\* worker thread is scheduled and the trainer's steps end.
InitFair == InitCommon /\ app = "services" /\ requests = FairPool

FairSpec ==
    /\ InitFair
    /\ [][NextCascade]_vars
    /\ \A t \in Tokens : WF_vars(UnitStepStore(t))

\* app/main.py over a store whose operations may fail.
InitFaulty == InitCommon /\ app = "main" /\ requests = {BaseRequest("cnn")}

FaultStep(job_id) ==
    \/ run_training_job_store_fails(job_id)
    \/ update_job_in_db_fails(job_id)

NextFaulty ==
    \/ Next
    \/ \E t \in Tokens : FaultStep(t)

SpecFaulty == InitFaulty /\ [][NextFaulty]_vars

\* ---------------------------------------------------------------- claims
Terminal == {"completed", "failed", "cancelled"}

CoreKeys == {"optimizer", "learning_rate", "batch_size", "epochs"}

SpecificKeys(model_type) ==
    IF model_type = "mlp" THEN {"hidden_size", "dropout_rate", "num_layers"}
    ELSE IF model_type = "cnn" THEN {"kernel_size"}
    ELSE {}

\* Request r names the experiment and model kind of job and equals it in
\* every compared parameter.
Equivalent(job, r) ==
    /\ job.experiment_id = r.experiment_id
    /\ job.model_type = r.model_type
    /\ \A k \in CoreKeys \cup SpecificKeys(r.model_type) :
         job.parameters[k] = r.parameters[k]

\* C1: while a cnn or mlp job J equivalent to request r is in the store of
\* an existing experiment, a submit of r returns J's token, adds no row and
\* launches no unit.
C1_IdempotentResubmission ==
    \A r \in requests : \A J \in DOMAIN jobs :
        /\ r.model_type \in {"cnn", "mlp"}
        /\ r.experiment_id \in experiments
        /\ Equivalent(jobs[J], r)
        => create_job_result(r) = [code |-> 200, job_id |-> J, insert |-> FALSE]

\* C2: once the status of a job is completed, failed or cancelled, no step
\* changes it while the row exists.
C2_TerminalAbsorbing ==
    [][\A t \in DOMAIN jobs \cap DOMAIN jobs' :
          jobs[t].status \in Terminal => jobs'[t].status = jobs[t].status]_vars

\* C3: a cancel request that passed its status check leaves the job in
\* status cancelled with completed_at set.
C3_CancelLeavesCancelled ==
    [][\A t \in Tokens :
          cancel_job_commit(t) /\ t \in DOMAIN jobs'
          => jobs'[t].status = "cancelled" /\ jobs'[t].completed_at # NULL]_vars

\* C4: a cancel request on a job in a terminal status is answered 400 and
\* changes no field of it, also when the job became terminal between the
\* request's status check and its commit.
C4_CancelTerminalRejected ==
    /\ [](\A t \in DOMAIN jobs :
            jobs[t].status \in Terminal => cancel_job_result(t) = 400)
    /\ [][\A t \in DOMAIN jobs :
            cancel_job_commit(t) /\ jobs[t].status \in Terminal
            => jobs'[t] = jobs[t]]_vars

\* C5: under fair scheduling of the execution units, every job whose unit
\* was scheduled is in the end deleted, or its unit is over and its status
\* is completed, failed or cancelled.
C5_EveryJobTerminal ==
    \A t \in Tokens :
        (tasks[t] > 0)
        ~> (\/ t \notin DOMAIN jobs
            \/ unit[t].pc = "done" /\ jobs[t].status \in Terminal)

\* The unit of a job of an unsupported model kind is over and the job
\* reads failed.
C5_Witness ==
    \E t \in DOMAIN jobs :
        /\ ~create_model(jobs[t].model_type)
        /\ unit[t].pc = "done"
        /\ jobs[t].status = "failed"

\* C6: a submit that goes on to the insert adds exactly one row, under a
\* token never used before, pending, with no result field set; it adds one
\* task for that token, which has not run when the call returns; and no
\* token ever has more than one task.
C6_SubmitCreatesOne ==
    /\ [](\A t \in Tokens : tasks[t] <= 1)
    /\ [][\A r \in requests :
            create_job_insert(r)
            => \E t \in Tokens :
                 /\ t \notin DOMAIN jobs /\ tasks[t] = 0
                 /\ DOMAIN jobs' = DOMAIN jobs \cup {t}
                 /\ \A u \in DOMAIN jobs : jobs'[u] = jobs[u]
                 /\ jobs'[t].status = "pending"
                 /\ jobs'[t].best_accuracy = NULL
                 /\ jobs'[t].total_time = NULL
                 /\ jobs'[t].history = NULL
                 /\ jobs'[t].epochs_completed = 0
                 /\ tasks' = [tasks EXCEPT ![t] = 1]
                 /\ unit'[t].pc = "queued"]_vars

\* A job was submitted and its unit has not started.
C6_Witness ==
    \E t \in DOMAIN jobs :
        jobs[t].status = "pending" /\ tasks[t] = 1 /\ unit[t].pc = "queued"

\* Request r differs in a compared parameter from every job of its
\* experiment and model kind.
Differs(r) ==
    \A t \in DOMAIN jobs :
        jobs[t].experiment_id = r.experiment_id /\ jobs[t].model_type = r.model_type
        => \E k \in CoreKeys \cup SpecificKeys(r.model_type) :
             jobs[t].parameters[k] # r.parameters[k]

\* C7: a submit to an existing experiment that differs in a compared
\* parameter from every job of its experiment and kind goes on to the
\* insert, and the insert adds a row under a token no row has and one task
\* for it.
C7_DifferingCreatesNew ==
    /\ [](\A r \in requests :
            r.experiment_id \in experiments /\ Differs(r)
            => create_job_result(r) = [code |-> 200, job_id |-> 0, insert |-> TRUE])
    /\ [][\A r \in requests :
            create_job_insert(r)
            => /\ issued' \notin DOMAIN jobs
               /\ issued' \in DOMAIN jobs'
               /\ tasks'[issued'] = tasks[issued'] + 1]_vars

\* Two jobs of one experiment and kind that differ in a compared parameter.
C7_Witness ==
    \E t, u \in DOMAIN jobs :
        /\ t # u
        /\ jobs[t].experiment_id = jobs[u].experiment_id
        /\ jobs[t].model_type = jobs[u].model_type
        /\ \E k \in CoreKeys \cup SpecificKeys(jobs[t].model_type) :
             jobs[t].parameters[k] # jobs[u].parameters[k]

\* C8: the store updates of a job's events are applied one by one in the
\* order of emission, each before the next event's callback starts, and the
\* events a socket is sent arrive in that order.
C8_EventOrder ==
    /\ [](\A t \in Tokens :
            /\ unit[t].stored \in {unit[t].seq, unit[t].seq - 1}
            /\ unit[t].cb = "idle" => unit[t].stored = unit[t].seq)
    /\ [][\A t \in Tokens :
            /\ unit'[t].stored \in {unit[t].stored, unit[t].stored + 1}
            /\ unit'[t].seq \in {unit[t].seq, unit[t].seq + 1}
            /\ \A ws \in DOMAIN sends :
                 \/ sends'[ws][t] = sends[ws][t]
                 \/ sends'[ws][t] > sends[ws][t]
                 \/ conn'[ws].state = "closed"]_vars

\* The second event of a job is stored and was sent on a socket.
C8_Witness ==
    \E t \in Tokens : \E ws \in DOMAIN sends :
        unit[t].seq >= 2 /\ unit[t].stored = unit[t].seq /\ sends[ws][t] >= 2

\* C9: when a broadcast ends, the event was sent on every socket that has
\* been registered since the event was emitted.
C9_FanOutComplete ==
    [][\A t \in Tokens :
          send_ws_update_raises(t) \/ send_ws_update_cleanup(t)
          => \A ws \in unit[t].audience : sends[ws][t] = unit[t].seq]_vars

\* C10: a broadcast in which a send failed still ends normally, with the
\* event sent on every other socket registered throughout, the failed
\* socket's key gone and the sockets whose send succeeded still registered.
C10_SendFailureIsolated ==
    [][\A t \in Tokens :
          (send_ws_update_raises(t) \/ send_ws_update_cleanup(t))
          /\ unit[t].disconnected # {}
          => /\ send_ws_update_cleanup(t)
             /\ \A ws \in unit[t].audience : sends[ws][t] = unit[t].seq
             /\ \A i \in 1..Len(ws_connections') :
                  ws_connections'[i].client_id \notin unit[t].disconnected
             /\ \A ws \in unit[t].audience :
                  conn[ws].client_id \notin unit[t].disconnected
                  => ws \in {ws_connections'[i].ws : i \in 1..Len(ws_connections')}]_vars

\* C11: a submit whose experiment does not exist is answered 404 and does
\* not go on to the insert, whatever the store holds; only submits that
\* found their experiment reach the insert.
C11_SubmitNotFound ==
    /\ [](\A r \in requests :
            r.experiment_id \notin experiments
            => create_job_result(r) = [code |-> 404, job_id |-> 0, insert |-> FALSE])
    /\ [][\A r \in inflight' \ inflight :
            r.experiment_id \in experiments]_vars

\* A request names no existing experiment while the store holds a job that
\* matches it.
C11_Witness ==
    \E r \in requests :
        r.experiment_id \notin experiments /\ Duplicates(r) # {}

\* The model kinds the specification lists.
ModelKinds == {"cnn", "mlp", "rnn"}

\* C12: no job row and no execution unit exists for a model kind other
\* than cnn, mlp and rnn.
C12_UnsupportedKindRejected ==
    \A t \in Tokens :
        /\ t \in DOMAIN jobs => jobs[t].model_type \in ModelKinds
        /\ tasks[t] > 0 => unit[t].model_type \in ModelKinds

\* C13: when the deletion of experiment E commits, E and every job of E
\* are gone, a lookup of such a job is answered 404, and every other job is
\* still there, unchanged.
C13_CascadeDelete ==
    [][\A d \in deleting :
          delete_experiment_commit(d)
          => /\ d.id \notin experiments'
             /\ \A t \in DOMAIN jobs :
                  IF jobs[t].experiment_id = d.id
                  THEN t \notin DOMAIN jobs' /\ (get_job(t))' = 404
                  ELSE t \in DOMAIN jobs' /\ jobs'[t] = jobs[t]]_vars

\* C14: whenever an event is sent on a socket, the store update of that
\* event has been applied already.
C14_StoreBeforeBroadcast ==
    [][\A t \in Tokens :
          send_ws_update_send(t) => unit[t].stored = unit[t].seq]_vars

\* C15: when the broadcast of an event whose job has no row ends, the event
\* was sent on every socket that has been registered since it was emitted.
C15_BroadcastWithoutRow ==
    [][\A t \in Tokens :
          (send_ws_update_raises(t) \/ send_ws_update_cleanup(t))
          /\ t \notin DOMAIN jobs
          => \A ws \in unit[t].audience : sends[ws][t] = unit[t].seq]_vars

\* C16: on every row of the store, a progress event of epoch n sets
\* epochs_completed to n and nothing else; a success event sets status
\* completed, completed_at, epochs_completed and the three result fields
\* from its final results and nothing else; a failure event sets status
\* failed and completed_at and nothing else; and a progress event of epoch 1
\* followed by a success with accuracy 97 reads completed, 1, 97.
C16_EventTranslation ==
    \A t \in DOMAIN jobs : \A n \in 1..AltParameters.epochs :
        LET job == jobs[t]
            done(a) == update_job_in_db(job, FinalStatus(n, a))
            failed == update_job_in_db(job, ErrorInfo)
            both == update_job_in_db(update_job_in_db(job, BatchStatus(1)),
                                     FinalStatus(1, 97))
        IN
        /\ update_job_in_db(job, BatchStatus(n)) = [job EXCEPT !.epochs_completed = n]
        /\ update_job_in_db(job, EpochStatus(n)) = [job EXCEPT !.epochs_completed = n]
        /\ \A a \in Accuracies :
             done(a) = [job EXCEPT !.status = "completed",
                                   !.completed_at = utcnow,
                                   !.epochs_completed = n,
                                   !.best_accuracy = Some(a),
                                   !.total_time = Some("total_time"),
                                   !.history = Some(n)]
        /\ failed = [job EXCEPT !.status = "failed", !.completed_at = utcnow]
        /\ both.status = "completed"
        /\ both.epochs_completed = 1
        /\ both.best_accuracy = Some(97)

\* A job whose unit reported epoch 1 and then success with accuracy 97.
C16_Witness ==
    \E t \in DOMAIN jobs :
        /\ unit[t].pc = "done"
        /\ jobs[t].status = "completed"
        /\ jobs[t].epochs_completed = 1
        /\ jobs[t].best_accuracy = Some(97)
        /\ jobs[t].completed_at # NULL

\* C17: a submit of an rnn request to an existing experiment always goes on
\* to the insert, whatever rnn jobs the store holds, and every rnn job in
\* the store has a task of its own.
C17_RnnNeverDuplicate ==
    /\ \A r \in requests :
         r.model_type = "rnn" /\ r.experiment_id \in experiments
         => create_job_result(r) = [code |-> 200, job_id |-> 0, insert |-> TRUE]
    /\ \A t \in DOMAIN jobs :
         jobs[t].model_type = "rnn" => tasks[t] = 1 /\ unit[t].pc # "none"

\* Two rnn jobs of one experiment with the same parameters.
C17_Witness ==
    \E t, u \in DOMAIN jobs :
        /\ t # u
        /\ jobs[t].model_type = "rnn" /\ jobs[u].model_type = "rnn"
        /\ jobs[t].experiment_id = jobs[u].experiment_id
        /\ jobs[t].parameters = jobs[u].parameters

\* C18: a unit emits no event once it has emitted a terminal one, and a
\* unit that is over has emitted exactly one terminal event.
C18_OneTerminalEvent ==
    /\ [](\A t \in Tokens : unit[t].pc = "done" => unit[t].terminal = 1)
    /\ [][\A t \in Tokens :
            unit'[t].seq > unit[t].seq => unit[t].terminal = 0]_vars


\* C19: result fields only on success: in every state a job whose
\* best_accuracy, total_time or history is set has status completed.
C19_ResultsOnlyOnSuccess ==
    \A t \in DOMAIN jobs :
        (\/ jobs[t].best_accuracy # NULL
         \/ jobs[t].total_time # NULL
         \/ jobs[t].history # NULL) => jobs[t].status = "completed"


\* C20: the persisted epochs_completed of a job never decreases: in every
\* step, whatever it is (a progress or terminal event of this or another
\* job, a cancel request), a row that stays has an epochs_completed at
\* least as large as before.
C20_EpochsCompletedMonotone ==
    [][\A t \in DOMAIN jobs \cap DOMAIN jobs' :
         jobs'[t].epochs_completed >= jobs[t].epochs_completed]_vars

\* A job that went through two epochs and got a cancel request committed
\* afterwards, its epochs_completed still at 2.
C20_Witness ==
    \E t \in DOMAIN jobs :
        /\ jobs[t].epochs_completed = 2
        /\ jobs[t].status = "cancelled"
        /\ unit[t].pc = "done"

\* C21: no step changes the experiment id, model kind or parameters of a
\* row that stays in the store, nor the arguments its task was added with;
\* every row carries the model kind and parameters its task was added with,
\* those of the submission that created it, so the row a duplicate
\* re-submission is answered with carries them too.
C21_CreatedFieldsFrozen ==
    /\ [](\A t \in DOMAIN jobs :
            /\ jobs[t].model_type = unit[t].model_type
            /\ jobs[t].parameters = unit[t].parameters)
    /\ [][\A t \in DOMAIN jobs \cap DOMAIN jobs' :
            /\ jobs'[t].experiment_id = jobs[t].experiment_id
            /\ jobs'[t].model_type = jobs[t].model_type
            /\ jobs'[t].parameters = jobs[t].parameters
            /\ unit'[t].model_type = unit[t].model_type
            /\ unit'[t].parameters = unit[t].parameters]_vars

\* A job that ran to the end is the duplicate a request with other
\* parameters is answered with.
C21_Witness ==
    \E r \in requests : \E t \in DOMAIN jobs :
        /\ create_job_result(r) = [code |-> 200, job_id |-> t, insert |-> FALSE]
        /\ r.parameters # jobs[t].parameters
        /\ jobs[t].status \in Terminal
        /\ unit[t].pc = "done"

\* C22: while a broadcast iterates over the registry no connect or
\* disconnect changes the registry, and no broadcast ends with its iterator
\* raising.
C22_RegistrySerialized ==
    [][/\ (\E t \in Tokens : unit[t].cb = "iter")
          => ws_connections' = ws_connections
       /\ \A t \in Tokens : ~send_ws_update_raises(t)]_vars

\* The fields only a job's own events may write.
Progress(job) ==
    <<job.epochs_completed, job.best_accuracy, job.total_time, job.history>>

C24_StoreFailureContained ==
    /\ [](\A t \in Tokens : unit[t].pc = "done" => unit[t].terminal >= 1)
    /\ [][\A t \in Tokens :
            send_ws_update_cleanup(t)
            => \A ws \in unit[t].audience : sends[ws][t] = unit[t].seq]_vars

\* C25: every send puts on its socket an event the socket has not been sent
\* before, the event of the broadcast that is running; a socket starts with
\* nothing sent on it, so it is never sent an event whose broadcast was
\* over when it registered.
C25_AtMostOnceNoReplay ==
    [][/\ \A t \in Tokens :
            send_ws_update_send(t)
            => \E ws \in Registered :
                 sends[ws][t] < unit[t].seq /\ sends'[ws][t] = unit[t].seq
       /\ \A ws \in DOMAIN sends' : \A t \in Tokens :
            IF ws \in DOMAIN sends
            THEN \/ sends'[ws][t] = sends[ws][t]
                 \/ sends'[ws][t] = 0 /\ conn'[ws].state = "closed"
                 \/ /\ unit[t].cb = "iter"
                    /\ ws \in Registered
                    /\ sends'[ws][t] = unit[t].seq
            ELSE sends'[ws][t] = 0]_vars

\* Two events were sent on socket 1; socket 2, registered since, has been
\* sent none of them.
C25_Witness ==
    \E t \in Tokens :
        /\ unit[t].seq >= 2 /\ unit[t].cb = "idle"
        /\ Registered = {1, 2}
        /\ sends[1][t] = unit[t].seq
        /\ sends[2][t] = 0

\* C26: in every state a job whose status is completed, failed or cancelled
\* has completed_at set.
C26_TerminalHasCompletedAt ==
    \A t \in DOMAIN jobs :
        jobs[t].status \in Terminal => jobs[t].completed_at # NULL

\* Three paths to a terminal status are finished in one behaviour: a cancel
\* request committed on one job, and the other job's unit over with its
\* terminal event stored.
C26_Witness ==
    \E t, u \in DOMAIN jobs :
        /\ jobs[t].status = "cancelled" /\ cancelling = {}
        /\ jobs[u].status \in {"completed", "failed"} /\ unit[u].pc = "done"
        /\ jobs[t].completed_at # NULL /\ jobs[u].completed_at # NULL

\* C27: the store never holds two cnn jobs or two mlp jobs of one
\* experiment and model kind that are equal in every compared parameter.
C27_NoEquivalentPair ==
    \A t, u \in DOMAIN jobs :
        /\ t # u
        /\ jobs[t].model_type \in {"cnn", "mlp"}
        /\ jobs[t].experiment_id = jobs[u].experiment_id
        /\ jobs[t].model_type = jobs[u].model_type
        => \E k \in CoreKeys \cup SpecificKeys(jobs[t].model_type) :
             jobs[t].parameters[k] # jobs[u].parameters[k]

\* C28: a job becomes running only from pending, in the launch step of its
\* unit, which sets started_at; a pending job becomes nothing but running
\* or cancelled; in every state a running, completed or failed job has
\* started_at set and a pending job has it unset.
C28_RunningOnlyFromPending ==
    /\ [](\A t \in DOMAIN jobs :
            /\ jobs[t].status \in {"running", "completed", "failed"}
               => jobs[t].started_at # NULL
            /\ jobs[t].status = "pending" => jobs[t].started_at = NULL)
    /\ [][\A t \in DOMAIN jobs \cap DOMAIN jobs' :
            /\ jobs'[t].status = "running" /\ jobs[t].status # "running"
               => /\ jobs[t].status = "pending"
                  /\ run_training_job(t)
                  /\ jobs'[t].started_at # NULL
            /\ jobs[t].status = "pending"
               => jobs'[t].status \in {"pending", "running", "cancelled"}]_vars

\* C29: a cnn or mlp submit that differs from a stored job J of its
\* experiment and model kind in its name or in parameters outside the
\* compared sets only is answered with J, as stored, and does not go on to
\* the insert.
C29_UncomparedIgnored ==
    \A r \in requests : \A J \in DOMAIN jobs :
        /\ r.model_type \in {"cnn", "mlp"}
        /\ r.experiment_id \in experiments
        /\ Equivalent(jobs[J], r)
        /\ r.name # jobs[J].name \/ r.parameters # jobs[J].parameters
        => /\ create_job_result(r).code = 200
           /\ ~create_job_result(r).insert
           /\ create_job_result(r).job_id = J

\* C30: the disconnect of a connection removes no registration but its own:
\* every other socket registered before the step is registered after it.
C30_RemovedOnlyByOwn ==
    [][\A ws \in DOMAIN conn :
          websocket_disconnect(ws)
          => \A other \in Registered \ {ws} : other \in Registered']_vars

\* C31: in every state the experiment id of every job row is the id of a
\* row of table experiments.
C31_ReferentialIntegrity ==
    \A t \in DOMAIN jobs : jobs[t].experiment_id \in experiments

\* C32: in every state the epochs_completed of a job is between 0 and the
\* epochs parameter of the job, and a completed job has epochs_completed
\* equal to its epochs parameter.
C32_ProgressBounded ==
    \A t \in DOMAIN jobs :
        /\ jobs[t].epochs_completed >= 0
        /\ jobs[t].epochs_completed <= jobs[t].parameters.epochs
        /\ jobs[t].status = "completed"
           => jobs[t].epochs_completed = jobs[t].parameters.epochs

\* C33: a row appears only in the insert of a submit, under a token never
\* issued before, so no launch step or event brings a deleted job back and
\* a lookup of its token keeps being answered 404; and a row disappears only
\* in an explicit delete of the job or in the commit of the deletion of an
\* experiment, never in a step of its unit.
C33_DeletedStaysDeleted ==
    /\ [](\A t \in Tokens : t > issued => get_job(t) = 404)
    /\ [][/\ \A t \in DOMAIN jobs' \ DOMAIN jobs :
               /\ t = issued' /\ issued' = issued + 1
               /\ \E r \in requests : create_job_insert(r)
          /\ \A t \in DOMAIN jobs \ DOMAIN jobs' :
               /\ delete_job(t) \/ \E d \in deleting : delete_experiment_commit(d)
               /\ (get_job(t))' = 404
          /\ \A t \in Tokens :
               UnitStepStore(t) => DOMAIN jobs' = DOMAIN jobs]_vars

\* The row of a job was deleted while its unit was pending or running, and
\* the unit has since emitted events up to its end.
C33_Witness ==
    \E t \in Tokens :
        /\ t <= issued /\ t \notin DOMAIN jobs
        /\ unit[t].pc = "done" /\ unit[t].seq >= 2
        /\ \E u \in DOMAIN jobs : jobs[u].status = "completed" /\ unit[u].pc = "done"

\* The construction set and the keys the run set is said to include.
ConstructionSet == {"dropout_rate", "hidden_size", "kernel_size", "num_layers"}

RunSet ==
    {"epochs", "batch_size", "learning_rate", "optimizer", "momentum",
     "use_scheduler"}

\* C34: in every unit that split its parameters, the construction part
\* holds the keys of the construction set and the run part all the others,
\* among them those of the run set; every key of the parameters is in
\* exactly one part, with the value it has in the parameters.
C34_ParametersPartitioned ==
    \A t \in Tokens :
        unit[t].pc \notin {"none", "queued"}
        => LET p == unit[t].parameters
               m == unit[t].model_params
               r == unit[t].training_params
           IN  /\ DOMAIN m = DOMAIN p \cap ConstructionSet
               /\ DOMAIN r = DOMAIN p \ ConstructionSet
               /\ RunSet \subseteq DOMAIN r
               /\ DOMAIN m \cup DOMAIN r = DOMAIN p
               /\ DOMAIN m \cap DOMAIN r = {}
               /\ \A k \in DOMAIN m : m[k] = p[k]
               /\ \A k \in DOMAIN r : r[k] = p[k]

\* Two units have split parameters that differ in a key of the
\* construction set.
C34_Witness ==
    \E t, u \in Tokens :
        /\ unit[t].pc = "done" /\ unit[u].pc = "done"
        /\ unit[t].model_params # unit[u].model_params
        /\ unit[t].training_params = unit[u].training_params
        /\ unit[t].training_params.epochs = 1

====
